---- MODULE Spec2Model ----
(***************************************************************************)
(* Model of the AFL fuzz harness of tomlz (fuzz/fuzzer/src/main.rs).       *)
(*                                                                         *)
(*   fn main() {                                                           *)
(*       fuzz!(|data:&[u8]|{                                               *)
(*           unsafe { fuzz_tomlz(data.as_ptr(),data.len()); }              *)
(*       })                                                                *)
(*   }                                                                     *)
(*                                                                         *)
(* Three parties take steps:                                               *)
(*   - the corpus driver (the loop behind fuzz!): it puts a candidate into *)
(*     the process's memory, lends it to the closure as a slice &[u8],     *)
(*     observes the process-level outcome and may start a fresh process;   *)
(*   - the harness closure: evaluates data.as_ptr() and data.len(), calls  *)
(*     fuzz_tomlz with them, and returns ();                               *)
(*   - the target routine fuzz_tomlz: reads the bytes the descriptor       *)
(*     reaches and returns, faults, or never returns.                      *)
(***************************************************************************)
EXTENDS Integers, Sequences, FiniteSets

\* ------------------------------------------------------------------ bounds

\* Longest candidate input the driver produces.
MaxLen == 2

\* Invocations of the closure over the whole behaviour (all processes).
MaxInvocations == 3

\* ------------------------------------------------------------ memory model

\* Byte values (a two-valued abstraction of u8).
Byte == 0..1

\* The non-null, well-aligned address that an empty &[u8] with no backing
\* allocation carries (align_of::<u8>()); nothing is mapped there.
DanglingU8 == 1

\* Mapped addresses of the process: room for one candidate plus one more cell.
Heap == (DanglingU8 + 1)..(DanglingU8 + 1 + MaxLen)

\* Candidate inputs: every byte sequence of length 0..MaxLen.
Inputs == UNION {[1..n -> Byte] : n \in 0..MaxLen}

NoSlice == [ptr |-> 0, len |-> 0]
NoDesc  == [addr |-> 0, len |-> 0, thread |-> "none"]
NoView  == [len |-> -1, bytes |-> <<>>]
NoRef   == [input |-> <<>>, outcome |-> "none", view |-> NoView, iso |-> FALSE, old |-> FALSE]

\* The thread that runs main, the fuzz! loop and the closure.
MainThread == "main"

Faults   == {"segv", "abort"}
Outcomes == <<"return", "segv", "abort", "hang">>

VARIABLES
    tgt,        \* which target routine is linked (its behaviour on each input)
    mem,        \* memory contents of the process, by mapped address
    cand,       \* the candidate input of the current invocation
    data,       \* the slice lent to the closure (NoSlice: no loan)
    desc,       \* the arguments of the cross-boundary call (NoDesc: none held)
    pc,         \* control position of the process
    tstate,     \* what the target routine has done in this invocation
    calls,      \* calls of fuzz_tomlz made in this invocation
    iter,       \* invocations started in this process
    total,      \* invocations started in all processes
    view,       \* what the target was handed in this invocation (length, bytes)
    outcome,    \* process-level outcome the driver observed for this invocation
    ref         \* an outcome the driver recorded earlier

vars == <<tgt, mem, cand, data, desc, pc, tstate, calls, iter, total, view, outcome, ref>>

\* ------------------------------------------------------- the slice accessors

\* Faulty variant: the address of the second byte.
as_ptr_off(s) == s.ptr + 1

\* Faulty variant: a null address for an empty slice.
as_ptr_null(s) == IF s.len = 0 THEN 0 ELSE s.ptr

\* data.as_ptr(): the address of the slice's first byte.
as_ptr(s) == s.ptr

\* Faulty variant: the last byte is dropped.
len_trunc(s) == IF s.len > 0 THEN s.len - 1 ELSE s.len

\* Faulty variant: one byte past the end is included.
len_over(s) == s.len + 1

\* Faulty variant: a counter kept across invocations shortens every input after the
\* first one of the process.
len_counted(s) == IF iter > 1 /\ s.len > 0 THEN s.len - 1 ELSE s.len

\* data.len(): the number of bytes of the slice.
len(s) == s.len

\* The thread a plain (synchronous) call runs on: the caller's.
CallThread(t) == t

\* ------------------------------------------------------- the target routine

\* Whether every address of the range (addr, n) is mapped (an empty range is).
Mapped(addr, n) == \A i \in 0..(n - 1) : (addr + i) \in Heap

\* The bytes reachable through (addr, n), in order.
ReadBytes(m, addr, n) == [i \in 1..n |-> m[addr + i - 1]]

\* An injective code of a byte sequence (length and content).
RECURSIVE Code(_)
Code(s) ==
    IF s = <<>> THEN 1
    ELSE Cardinality(Byte) * Code(SubSeq(s, 1, Len(s) - 1)) + s[Len(s)]

\* What the linked target k does with the bytes it is given: a function of the
\* bytes alone.
TargetBehaviour(k, bytes) == Outcomes[((Code(bytes) + k) % Len(Outcomes)) + 1]

\* What the target does in the call in flight: it reads the bytes the
\* descriptor reaches; touching unmapped memory is a segmentation fault.
Behaviour ==
    IF Mapped(desc.addr, desc.len)
    THEN TargetBehaviour(tgt, ReadBytes(mem, desc.addr, desc.len))
    ELSE "segv"

\* ---------------------------------------------------------------- harness

\* Faulty variant: a barrier around the call recovers from a fault.
AfterCall_catch(o) ==
    CASE o = "return" -> "after_call"
      [] o \in Faults -> "after_call"
      [] OTHER        -> "incall"

\* Faulty variant: a timer around the call gives up on a hang.
AfterCall_timeout(o) ==
    CASE o = "return" -> "after_call"
      [] o \in Faults -> "aborted"
      [] OTHER        -> "after_call"

\* Where control is after the target has behaved as o: the call is a plain call
\* statement, with no handler, barrier or timer around it. A normal return goes
\* on to the end of the closure, a fault ends the process, a hang stays in the
\* call.
AfterCall(o) ==
    CASE o = "return" -> "after_call"
      [] o \in Faults -> "aborted"
      [] OTHER        -> "incall"

Init ==
    /\ tgt \in 0..(Len(Outcomes) - 1)
    /\ mem \in [Heap -> Byte]
    /\ cand = <<>>
    /\ data = NoSlice
    /\ desc = NoDesc
    /\ pc = "idle"
    /\ tstate = "none"
    /\ calls = 0
    /\ iter = 0
    /\ total = 0
    /\ view = NoView
    /\ outcome = "none"
    /\ ref = NoRef

\* The driver hands the next candidate c to the closure: the bytes are in
\* memory from address p on (an empty candidate has nothing in memory: its
\* pointer is any non-null address, mapped or not).
DriverNext(c, p) ==
    /\ pc = "idle"
    /\ total < MaxInvocations
    /\ IF Len(c) = 0
       THEN /\ p \in Heap \cup {DanglingU8}
            /\ mem' = mem
       ELSE /\ p \in Heap
            /\ (p + Len(c) - 1) \in Heap
            /\ mem' = [a \in Heap |->
                         IF a \in p..(p + Len(c) - 1) THEN c[a - p + 1] ELSE mem[a]]
    /\ cand' = c
    /\ data' = [ptr |-> p, len |-> Len(c)]
    /\ pc' = "entered"
    /\ tstate' = "none"
    /\ calls' = 0
    /\ iter' = iter + 1
    /\ total' = total + 1
    /\ view' = NoView
    /\ outcome' = "none"
    /\ UNCHANGED <<tgt, desc, ref>>

\* The closure evaluates the call's arguments.
BuildDescriptor ==
    /\ pc = "entered"
    /\ desc' = [addr |-> as_ptr(data), len |-> len(data), thread |-> "none"]
    /\ pc' = "args"
    /\ UNCHANGED <<tgt, mem, cand, data, tstate, calls, iter, total, view, outcome, ref>>

\* Faulty variant: an empty input is not passed on.
CallTarget_skip_empty ==
    /\ pc = "args"
    /\ desc' = [desc EXCEPT !.thread = CallThread(MainThread)]
    /\ IF desc.len = 0
       THEN /\ pc' = "after_call"
            /\ tstate' = "returned"
            /\ UNCHANGED <<calls, view>>
       ELSE /\ pc' = "incall"
            /\ tstate' = "running"
            /\ calls' = calls + 1
            /\ view' = [len   |-> desc.len,
                        bytes |-> IF Mapped(desc.addr, desc.len)
                                  THEN ReadBytes(mem, desc.addr, desc.len) ELSE <<>>]
    /\ UNCHANGED <<tgt, mem, cand, data, iter, total, outcome, ref>>

\* The closure calls fuzz_tomlz.
CallTarget ==
    /\ pc = "args"
    /\ desc' = [desc EXCEPT !.thread = CallThread(MainThread)]
    /\ pc' = "incall"
    /\ tstate' = "running"
    /\ calls' = calls + 1
    /\ view' = [len   |-> desc.len,
                bytes |-> IF Mapped(desc.addr, desc.len)
                          THEN ReadBytes(mem, desc.addr, desc.len) ELSE <<>>]
    /\ UNCHANGED <<tgt, mem, cand, data, iter, total, outcome, ref>>

\* fuzz_tomlz returns.
TargetReturn ==
    /\ pc = "incall"
    /\ tstate = "running"
    /\ Behaviour = "return"
    /\ tstate' = "returned"
    /\ pc' = AfterCall("return")
    /\ UNCHANGED <<tgt, mem, cand, data, desc, calls, iter, total, view, outcome, ref>>

\* fuzz_tomlz faults; the driver sees the process die, if it does.
TargetFault ==
    /\ pc = "incall"
    /\ tstate = "running"
    /\ Behaviour \in Faults
    /\ tstate' = "faulted"
    /\ pc' = AfterCall(Behaviour)
    /\ outcome' = IF pc' = "aborted" THEN Behaviour ELSE outcome
    /\ UNCHANGED <<tgt, mem, cand, data, desc, calls, iter, total, view, ref>>

\* fuzz_tomlz enters a loop it never leaves; the driver sees the timeout, if
\* the process is still in the call.
TargetHang ==
    /\ pc = "incall"
    /\ tstate = "running"
    /\ Behaviour = "hang"
    /\ tstate' = "hung"
    /\ pc' = AfterCall("hang")
    /\ outcome' = IF pc' = "incall" THEN "hang" ELSE outcome
    /\ UNCHANGED <<tgt, mem, cand, data, desc, calls, iter, total, view, ref>>

\* Faulty variant: the descriptor is kept after the closure has returned.
Return_keep ==
    /\ pc = "after_call"
    /\ pc' = "idle"
    /\ data' = NoSlice
    /\ outcome' = "return"
    /\ UNCHANGED <<tgt, mem, cand, desc, tstate, calls, iter, total, view, ref>>

\* Faulty variant: the call is made a second time before the closure returns.
Return_retry ==
    /\ pc = "after_call"
    /\ IF calls < 2
       THEN /\ pc' = "args"
            /\ UNCHANGED <<desc, data, outcome>>
       ELSE /\ pc' = "idle"
            /\ desc' = NoDesc
            /\ data' = NoSlice
            /\ outcome' = "return"
    /\ UNCHANGED <<tgt, mem, cand, tstate, calls, iter, total, view, ref>>

\* The closure returns (): its temporaries and its borrow of data end, and the
\* driver sees a normal return.
Return ==
    /\ pc = "after_call"
    /\ pc' = "idle"
    /\ desc' = NoDesc
    /\ data' = NoSlice
    /\ outcome' = "return"
    /\ UNCHANGED <<tgt, mem, cand, tstate, calls, iter, total, view, ref>>

\* The driver records the outcome it observed for the current candidate.
DriverRecord ==
    /\ outcome # "none"
    /\ ref' = [input |-> cand, outcome |-> outcome, view |-> view,
                iso |-> (iter = 1), old |-> FALSE]
    /\ ref' # ref
    /\ UNCHANGED <<tgt, mem, cand, data, desc, pc, tstate, calls, iter, total, view, outcome>>

\* The driver starts a fresh process (after a crash, a timeout, or at will
\* between invocations): new memory, nothing carried over.
Restart ==
    /\ iter > 0
    /\ \/ pc \in {"idle", "aborted"}
       \/ tstate = "hung"
    /\ mem' \in [Heap -> Byte]
    /\ cand' = <<>>
    /\ data' = NoSlice
    /\ desc' = NoDesc
    /\ pc' = "idle"
    /\ tstate' = "none"
    /\ calls' = 0
    /\ iter' = 0
    /\ view' = NoView
    /\ outcome' = "none"
    /\ ref' = IF ref = NoRef THEN ref ELSE [ref EXCEPT !.old = TRUE]
    /\ UNCHANGED <<tgt, total>>

Next ==
    \/ \E c \in Inputs, p \in Heap \cup {DanglingU8} : DriverNext(c, p)
    \/ BuildDescriptor
    \/ CallTarget
    \/ TargetReturn
    \/ TargetFault
    \/ TargetHang
    \/ Return
    \/ DriverRecord
    \/ Restart

Spec == Init /\ [][Next]_vars

\* The process keeps running: a step of the closure that can be taken is taken.
FairSpec ==
    /\ Spec
    /\ WF_vars(BuildDescriptor)
    /\ WF_vars(CallTarget)
    /\ WF_vars(Return)

\* ------------------------------------------------------------------ claims

\* A call of the target is in flight.
InFlight == tstate \in {"running", "hung"}

\* C1: for every candidate, the descriptor the closure builds and passes has
\* the candidate's byte count as its length, and the bytes readable in its
\* address range are the candidate's bytes, in order and unaltered.
C1_DescriptorFidelity ==
    desc # NoDesc =>
        /\ desc.len = Len(cand)
        /\ Mapped(desc.addr, desc.len)
        /\ ReadBytes(mem, desc.addr, desc.len) = cand

\* A call is in flight for a candidate of full length with two different bytes.
C1_Witness ==
    /\ tstate = "running"
    /\ Len(cand) = MaxLen
    /\ cand[1] # cand[MaxLen]
    /\ view = [len |-> MaxLen, bytes |-> cand]

\* C2: every invocation makes exactly one call of the target, whatever the
\* candidate; the call is in flight only inside the invocation, on the
\* invoking thread, and has finished when the invocation returns.
C2_ExactlyOneCall ==
    /\ calls <= 1
    /\ pc \in {"incall", "after_call", "aborted"} => calls = 1
    /\ outcome # "none" => calls = 1
    /\ (pc = "idle" /\ iter > 0) => (calls = 1 /\ tstate = "returned")
    /\ InFlight => (pc = "incall" /\ desc.thread = MainThread)
    /\ pc \in {"entered", "args"} => (calls = 0 /\ tstate = "none")

\* An invocation with the empty candidate has returned after its one call.
C2_Witness ==
    /\ pc = "idle"
    /\ outcome = "return"
    /\ cand = <<>>
    /\ calls = 1

\* C3: once the target has faulted, the process is dead: the invocation never
\* reports a normal return and no further iteration starts in that process.
C3_NoFaultSuppression ==
    /\ [](tstate = "faulted" => (pc = "aborted" /\ outcome \in Faults))
    /\ [][(pc = "aborted" /\ iter' # 0) =>
            (pc' = "aborted" /\ iter' = iter /\ total' = total /\ outcome' = outcome)]_vars

\* The target has faulted in the second invocation of a process.
C3_Witness ==
    /\ tstate = "faulted"
    /\ pc = "aborted"
    /\ iter = 2

\* C4: two runs of the harness on the same bytes, each the first invocation of
\* its process, have the same process-level outcome.
C4_Determinism ==
    (/\ outcome # "none"
     /\ iter = 1
     /\ ref # NoRef
     /\ ref.iso
     /\ ref.input = cand) => outcome = ref.outcome

\* A crash recorded in an earlier process is reproduced by replaying its input
\* as the first invocation of a new process.
C4_Witness ==
    /\ ref # NoRef
    /\ ref.old
    /\ ref.iso
    /\ ref.outcome \in Faults
    /\ iter = 1
    /\ cand = ref.input
    /\ Len(cand) > 0
    /\ outcome = ref.outcome

\* C5: the descriptor contents handed to the target and the outcome of an
\* invocation depend on its candidate alone, not on the invocations before it;
\* between invocations the harness holds nothing.
C5_Independence ==
    /\ (outcome # "none" /\ ref # NoRef /\ ref.input = cand) =>
            (outcome = ref.outcome /\ view = ref.view)
    /\ pc = "idle" => (desc = NoDesc /\ data = NoSlice)

\* An input whose outcome was recorded as a first invocation gets the same
\* outcome as a later invocation of a process that ran another input first.
C5_Witness ==
    /\ ref # NoRef
    /\ ref.iso
    /\ iter > 1
    /\ cand = ref.input
    /\ Len(cand) > 0
    /\ outcome = ref.outcome

\* C6 (as claimed): for the empty candidate the target is called with length 0
\* and an address that is not dangling: it lies in the process's live memory.
C6_EmptyAddressNotDangling ==
    (InFlight /\ cand = <<>>) => (desc.len = 0 /\ desc.addr \in Heap)

\* C6 (amended): for the empty candidate the target is still called, once,
\* with length 0 and the slice's own non-null address, which may be the
\* dangling address of an empty slice; the harness itself does not fault: the
\* process dies only when the target has faulted.
C6_EmptyInput ==
    /\ (cand = <<>> /\ pc \in {"incall", "after_call", "aborted"}) =>
            /\ calls = 1
            /\ desc.len = 0
            /\ desc.addr # 0
            /\ desc.addr \in Heap \cup {DanglingU8}
            /\ view = [len |-> 0, bytes |-> <<>>]
    /\ (cand = <<>> /\ outcome # "none") => calls = 1
    /\ pc = "aborted" => tstate = "faulted"

\* The call for an empty candidate with the dangling address has returned.
C6_Witness ==
    /\ cand = <<>>
    /\ desc # NoDesc
    /\ desc.addr = DanglingU8
    /\ tstate = "returned"
    /\ pc = "after_call"

\* C7: while the target does not return the harness stays in the call: it
\* neither returns nor aborts the call nor starts another iteration.
C7_NoTimeout ==
    /\ [](tstate = "hung" => (pc = "incall" /\ outcome = "hang"))
    /\ [][(tstate = "hung" /\ iter' # 0) =>
            (/\ tstate' = "hung"
             /\ pc' = "incall"
             /\ iter' = iter
             /\ total' = total
             /\ desc' = desc
             /\ outcome' = "hang")]_vars

\* The target hangs in a call and the driver has recorded the timeout.
C7_Witness ==
    /\ tstate = "hung"
    /\ pc = "incall"
    /\ ref # NoRef
    /\ ref.outcome = "hang"

\* C8: when the target returns normally the invocation ends: the only step
\* left is the closure's return, which gives the driver a plain normal return
\* and does nothing else.
C8_ReturnsControl ==
    /\ (tstate = "returned" ~> pc = "idle")
    /\ [](tstate = "returned" => pc \in {"after_call", "idle"})
    /\ [][(pc = "after_call") =>
            (/\ pc' = "idle"
             /\ outcome' = "return"
             /\ UNCHANGED <<mem, cand, calls, tstate, view, iter, total>>)]_vars

\* Control is back with the driver after a full-length candidate was parsed.
C8_Witness ==
    /\ tstate = "returned"
    /\ pc = "idle"
    /\ outcome = "return"
    /\ Len(cand) = MaxLen

\* C9: while a call is in flight its descriptor is the current candidate's
\* slice: same address, same length, the loan still running and the bytes in
\* mapped memory; the loan ends only once the call has returned (or with the
\* process).
C9_DescriptorValidDuringCall ==
    /\ [](InFlight =>
            /\ data # NoSlice
            /\ desc.addr = data.ptr
            /\ desc.len = data.len
            /\ data.len = Len(cand)
            /\ Mapped(desc.addr, desc.len)
            /\ ReadBytes(mem, desc.addr, desc.len) = cand)
    /\ [][(data # NoSlice /\ data' # data /\ iter' # 0) => tstate = "returned"]_vars
    /\ [][(InFlight /\ iter' # 0) => (mem' = mem /\ data' = data /\ desc' = desc)]_vars

\* A call is in flight in the second invocation of a process, on a non-empty
\* candidate placed in the buffer an earlier candidate used.
C9_Witness ==
    /\ InFlight
    /\ iter = 2
    /\ Len(cand) > 0
    /\ data.ptr \in Heap

\* C10: the harness's own steps leave the candidate's bytes as they are, and
\* after the invocation has returned the harness holds no address or length:
\* the next invocation starts with none.
C10_NoRetention ==
    /\ [](pc \in {"idle", "entered"} => desc = NoDesc)
    /\ [](pc = "idle" => data = NoSlice)
    /\ [][(pc \in {"entered", "args", "after_call"}) => (mem' = mem /\ cand' = cand)]_vars

\* A second invocation has started with no descriptor held.
C10_Witness ==
    /\ pc = "entered"
    /\ iter = 2
    /\ desc = NoDesc
    /\ data # NoSlice

====
